---- MODULE Spec2Model ----
(***************************************************************************)
(* A model of file_processor.py: the per-field checks, the rule            *)
(* dispatcher (validate_field_dic), the merge of the finding tables        *)
(* (validate_fields_from_json), the process-wide registry `problems` and   *)
(* calculate_percentage_error.                                             *)
(*                                                                         *)
(* Python values are records [kind, repr]; a DataFrame read by             *)
(* extract_data is [index, data]; a finding DataFrame is                   *)
(* [index_level, columns, rows, cells].  A column name is a tuple of       *)
(* lexemes (<<"NONE_", "a", "_VALUE">> is 'NONE_a_VALUE') so that          *)
(* str.upper() can be computed lexeme by lexeme.  Percentages keep their   *)
(* Python type: an int, or a float held as the integer Scale * value.      *)
(***************************************************************************)
EXTENDS Integers, Sequences, FiniteSets, TLC

VARIABLES df, problems, pc, field, validations, field_df, list_df, fields,
          out, life, call

vars == <<df, problems, pc, field, validations, field_df, list_df, fields,
          out, life, call>>

(* Bounds of the model: the rows of a frame a function is called on, the  *)
(* rows of the file of a run, and the lengths handed to                   *)
(* calculate_percentage_error.                                            *)
MaxRows == 3
MaxRunRows == 2
MaxCount == 7

(* ---------------------------------------------------------------------- *)
(* Constants of the module, lines 12-18.                                  *)
none == "none"
unique == "unique"
type == "type"
int_type == "int"
string_type == "string"
date_type == "date"
country_code_type == "country_code"

(* ---------------------------------------------------------------------- *)
(* Python values held by a DataFrame cell.                                *)
Null == [kind |-> "null", repr |-> "nan"]
IntV(s) == [kind |-> "int", repr |-> s]
StrV(s) == [kind |-> "str", repr |-> s]

(* The cell values the tables of the model are built from: a null, an     *)
(* integer, a recognized country code, an unrecognized one, and a text in *)
(* the date format.                                                       *)
Values == {Null, IntV("7"), StrV("AR"), StrV("ZZ"), StrV("2024-01-31 10:00:00")}

(* Texts that strptime accepts under '%Y-%m-%d %H:%M:%S'.                 *)
DateTexts == {"2024-01-31 10:00:00"}

(* The columns the loaded file has, and the field names a configuration   *)
(* may use ("b" is never a column of the file).                           *)
Columns == {"a"}
FieldNames == {"a", "b"}

(* pd.isnull(x), isinstance(x, str), isinstance(x, int) or float.         *)
isnull(x) == x.kind = "null"
IsStr(x) == x.kind = "str"
IsIntOrFloat(x) == x.kind \in {"int", "float"}

(* extract_data: the index of the frame read from the file is 0..n-1      *)
(* shifted by 2.                                                          *)
extract_data(rows) ==
  [index |-> [i \in 1..Len(rows) |-> (i - 1) + 2],
   data |-> [c \in Columns |-> rows]]

len(frame) == Len(frame.index)

(* ---------------------------------------------------------------------- *)
(* Numbers and their text.                                                *)
Abs(i) == IF i < 0 THEN -i ELSE i

(* round(x, 4): a float is held as the integer Scale * x. *)
Scale == 10000

(* The integer nearest to num / den, ties to even, as round() does;       *)
(* den > 0.                                                               *)
RoundHalfEven(num, den) ==
  LET q == num \div den
      r == num % den
  IN  IF 2 * r < den THEN q
      ELSE IF 2 * r > den THEN q + 1
      ELSE IF q % 2 = 0 THEN q ELSE q + 1

PyInt(i) == [type |-> "int", val |-> i]
PyFloat(scaled) == [type |-> "float", val |-> scaled]

(* round(k / n * 100, 4), a float. *)
RoundPercent(k, n) == PyFloat(RoundHalfEven(k * 100 * Scale, n))

RECURSIVE Digits(_, _)
Digits(d, k) == IF k = 0 THEN "" ELSE Digits(d \div 10, k - 1) \o ToString(d % 10)

RECURSIVE Fraction(_, _)
Fraction(d, k) ==
  IF k > 1 /\ d % 10 = 0 THEN Fraction(d \div 10, k - 1) ELSE Digits(d, k)

(* str() of a Python number: "0" for the int 0, "0.0" for the float 0.0,  *)
(* "66.6667" for 66.6667.                                                 *)
PyStr(p) ==
  IF p.type = "int" THEN ToString(p.val)
  ELSE (IF p.val < 0 THEN "-" ELSE "")
        \o ToString(Abs(p.val) \div Scale) \o "."
        \o Fraction(Abs(p.val) % Scale, 4)

ErrorRate(p) == "Error_rate: " \o PyStr(p) \o "%"

(* ---------------------------------------------------------------------- *)
(* An entry already there is kept. *)
set_percentage_error_keeps_first(reg, f, error) ==
  [g \in DOMAIN reg \cup {f} |-> IF g \in DOMAIN reg THEN reg[g] ELSE error]

(* set_percentage_error: problems[field] = error.                         *)
set_percentage_error(reg, f, error) ==
  [g \in DOMAIN reg \cup {f} |-> IF g = f THEN error ELSE reg[g]]

(* ---------------------------------------------------------------------- *)
(* Finding DataFrames.  `columns` lists the column labels in order,       *)
(* 'index' included when it is a column; index_level says that 'index'    *)
(* is the frame's index instead (set_index('index') was kept); `rows` are *)
(* the row identities held under 'index'; cells[id][c] is the cell of     *)
(* column c in the row of identity id.  The order of the rows is not      *)
(* represented.                                                           *)
IndexLabel == <<"index">>
True == <<"True">>
NaN == <<"nan">>
ValueCell(v) == <<"value", v>>
ListCell(s) == <<"list", s>>

NoFrame == [index_level |-> FALSE, columns |-> <<>>, rows |-> {}, cells |-> <<>>]

(* pd.DataFrame(columns=[...]): no rows. *)
EmptyFrame(cols) == [NoFrame EXCEPT !.columns = cols]

DataColumns(frame) ==
  {frame.columns[i] : i \in DOMAIN frame.columns} \ {IndexLabel}

(* pd.DataFrame({'index': df.index[mask], label: True}), followed by      *)
(* set_index('index') when `level`.                                       *)
FlagFrame(frame, hit, label, level) ==
  [index_level |-> level,
   columns |-> IF level THEN <<label>> ELSE <<IndexLabel, label>>,
   rows |-> {frame.index[i] : i \in hit},
   cells |-> [id \in {frame.index[i] : i \in hit} |-> [c \in {label} |-> True]]]

(* What a call does: it returns `ret`, or raises `exc` (exc = "" when it  *)
(* returns), and leaves the registry as `problems`.                       *)
Return(frame, reg) == [exc |-> "", arg |-> "", ret |-> frame, problems |-> reg]
Raise(e, a, reg) == [exc |-> e, arg |-> a, ret |-> NoFrame, problems |-> reg]

HasColumn(frame, f) == f \in DOMAIN frame.data
Positions(frame) == DOMAIN frame.index

(* ---------------------------------------------------------------------- *)
(* validate_none_fields *)
validate_none_fields(frame, f, reg) ==
  IF ~HasColumn(frame, f) THEN Raise("KeyError", f, reg)
  ELSE
    LET col == frame.data[f]
        label == <<"NONE_", f, "_VALUE">>
        none_mask == {i \in Positions(frame) : isnull(col[i])}
    IN  IF none_mask # {}
        THEN Return(FlagFrame(frame, none_mask, label, TRUE),
                    set_percentage_error(reg, f,
                      ErrorRate(RoundPercent(Cardinality(none_mask), len(frame)))))
        ELSE Return(EmptyFrame(<<IndexLabel, label>>),
                    set_percentage_error(reg, f, ErrorRate(PyInt(0))))

(* validate_unique_fields.  duplicated(keep=False) counts nulls as equal  *)
(* to each other; groupby(field) leaves the null key out.                 *)
Min(S) == CHOOSE x \in S : \A y \in S : x <= y

RECURSIVE SortedSeq(_)
SortedSeq(S) == IF S = {} THEN <<>> ELSE <<Min(S)>> \o SortedSeq(S \ {Min(S)})

validate_unique_fields(frame, f, reg) ==
  IF ~HasColumn(frame, f) THEN Raise("KeyError", f, reg)
  ELSE
    LET col == frame.data[f]
        cols == <<IndexLabel, <<"Repeat_", f>>, <<"repeated_indexes">>>>
        duplicates_mask ==
          {i \in Positions(frame) : \E j \in Positions(frame) : j # i /\ col[j] = col[i]}
        keys == {col[i] : i \in duplicates_mask} \ {Null}
        group(v) == SortedSeq({frame.index[i] : i \in {j \in duplicates_mask : col[j] = v}})
        first(v) == Head(group(v))
        key_of(id) == CHOOSE v \in keys : first(v) = id
    IN  IF duplicates_mask # {}
        THEN Return(
               [index_level |-> FALSE,
                columns |-> cols,
                rows |-> {first(v) : v \in keys},
                cells |-> [id \in {first(v) : v \in keys} |->
                            [c \in {cols[2], cols[3]} |->
                              IF c = cols[2] THEN ValueCell(key_of(id))
                              ELSE ListCell(Tail(group(key_of(id))))]]],
               set_percentage_error(reg, f,
                 ErrorRate(RoundPercent(Cardinality(duplicates_mask), len(frame)))))
        ELSE Return(EmptyFrame(cols),
                    set_percentage_error(reg, f, ErrorRate(PyInt(0))))

(* validate_string_fields: the set_index result is discarded, and the     *)
(* registry is written in the flagged branch only.                        *)
validate_string_fields(frame, f, reg) ==
  IF ~HasColumn(frame, f) THEN Raise("KeyError", f, reg)
  ELSE
    LET col == frame.data[f]
        label == <<"NULL_", f, "_STRING">>
        non_string_mask == {i \in Positions(frame) : ~IsStr(col[i]) /\ ~isnull(col[i])}
    IN  IF non_string_mask # {}
        THEN Return(FlagFrame(frame, non_string_mask, label, FALSE),
                    set_percentage_error(reg, f,
                      ErrorRate(RoundPercent(Cardinality(non_string_mask), len(frame)))))
        ELSE Return(EmptyFrame(<<IndexLabel, label>>), reg)

(* The registry is written in both branches, as validate_none_fields does. *)
validate_int_fields_always_records(frame, f, reg) ==
  IF ~HasColumn(frame, f) THEN Raise("KeyError", f, reg)
  ELSE
    LET col == frame.data[f]
        label == <<"NULL_", f, "_INT">>
        non_null_int_mask ==
          {i \in Positions(frame) : ~IsIntOrFloat(col[i]) /\ ~isnull(col[i])}
    IN  IF non_null_int_mask # {}
        THEN Return(FlagFrame(frame, non_null_int_mask, label, FALSE),
                    set_percentage_error(reg, f,
                      ErrorRate(RoundPercent(Cardinality(non_null_int_mask), len(frame)))))
        ELSE Return(EmptyFrame(<<IndexLabel, label>>),
                    set_percentage_error(reg, f, ErrorRate(PyInt(0))))

(* validate_int_fields *)
validate_int_fields(frame, f, reg) ==
  IF ~HasColumn(frame, f) THEN Raise("KeyError", f, reg)
  ELSE
    LET col == frame.data[f]
        label == <<"NULL_", f, "_INT">>
        non_null_int_mask ==
          {i \in Positions(frame) : ~IsIntOrFloat(col[i]) /\ ~isnull(col[i])}
    IN  IF non_null_int_mask # {}
        THEN Return(FlagFrame(frame, non_null_int_mask, label, FALSE),
                    set_percentage_error(reg, f,
                      ErrorRate(RoundPercent(Cardinality(non_null_int_mask), len(frame)))))
        ELSE Return(EmptyFrame(<<IndexLabel, label>>), reg)

(* validate_date_format: to_datetime(..., errors='coerce') is NaT for     *)
(* everything but a text in the format; the registry is never written.    *)
ParsesAsDate(x) == IsStr(x) /\ x.repr \in DateTexts

validate_date_format(frame, f, reg) ==
  IF ~HasColumn(frame, f) THEN Raise("KeyError", f, reg)
  ELSE
    LET col == frame.data[f]
        label == <<"INVALID_", f, "_FORMAT">>
        invalid_format_mask == {i \in Positions(frame) : ~ParsesAsDate(col[i])}
    IN  IF invalid_format_mask # {}
        THEN Return(FlagFrame(frame, invalid_format_mask, label, TRUE), reg)
        ELSE Return(EmptyFrame(<<IndexLabel, label>>), reg)

(* validate_country_codes.  non_matching_values is the DataFrame of the   *)
(* selected rows, not a mask: df.index[non_matching_values] hands numpy a *)
(* two-dimensional array of the rows' cells as an indexer, which raises   *)
(* IndexError (the cells are texts, floats, or integers beyond the length *)
(* of the index), so lines 276-284 are never completed.                   *)
country_list ==
  {"AR", "BR", "CL", "CO", "CR", "CU", "DO", "EC", "SV", "GT", "HT", "HN",
   "JM", "MX", "NI", "PA", "PY", "PE", "PR", "UY", "VE"}

isin(x, list) == IsStr(x) /\ x.repr \in list

validate_country_codes(frame, f, reg) ==
  IF ~HasColumn(frame, f) THEN Raise("KeyError", f, reg)
  ELSE
    LET col == frame.data[f]
        label == <<"NOT_IN_", f, "_LIST">>
        non_matching_values ==
          {i \in Positions(frame) : ~isin(col[i], country_list) /\ ~isnull(col[i])}
    IN  IF non_matching_values # {}
        THEN Raise("IndexError", "", reg)
        ELSE Return(EmptyFrame(<<IndexLabel, label>>), reg)

(* ---------------------------------------------------------------------- *)
(* The share of the merged count instead of the shrinkage. *)
calculate_percentage_error_of_merged(len_ori, len_merge) ==
  IF len_ori = len_merge THEN "0%"
  ELSE IF len_ori = 0 THEN "0%"
  ELSE PyStr(PyFloat(RoundHalfEven(len_merge * 100 * Scale, len_ori))) \o "%"

(* calculate_percentage_error, on the two lengths.                        *)
calculate_percentage_error(len_ori, len_merge) ==
  IF len_ori = len_merge THEN "0%"
  ELSE IF len_ori = 0 THEN "0%"
  ELSE PyStr(PyFloat(RoundHalfEven((len_ori - len_merge) * 100 * Scale, len_ori))) \o "%"

(* ---------------------------------------------------------------------- *)
(* str.upper() of a column label, lexeme by lexeme.                       *)
UpperLexeme ==
  [x \in {"index", "NONE_", "_VALUE", "Repeat_", "repeated_indexes", "NULL_",
          "_STRING", "_INT", "INVALID_", "_FORMAT", "NOT_IN_", "_LIST",
          "_x", "_y", "a", "b"} |->
     CASE x = "index" -> "INDEX"
       [] x = "NONE_" -> "NONE_"
       [] x = "_VALUE" -> "_VALUE"
       [] x = "Repeat_" -> "REPEAT_"
       [] x = "repeated_indexes" -> "REPEATED_INDEXES"
       [] x = "NULL_" -> "NULL_"
       [] x = "_STRING" -> "_STRING"
       [] x = "_INT" -> "_INT"
       [] x = "INVALID_" -> "INVALID_"
       [] x = "_FORMAT" -> "_FORMAT"
       [] x = "NOT_IN_" -> "NOT_IN_"
       [] x = "_LIST" -> "_LIST"
       [] x = "_x" -> "_X"
       [] x = "_y" -> "_Y"
       [] x = "a" -> "A"
       [] x = "b" -> "B"]

upper(label) == [i \in DOMAIN label |-> UpperLexeme[label[i]]]

(* merged_df.columns = merged_df.columns.str.upper() *)
columns_upper(frame) ==
  [index_level |-> frame.index_level,
   columns |-> [i \in DOMAIN frame.columns |-> upper(frame.columns[i])],
   rows |-> frame.rows,
   cells |-> [id \in frame.rows |->
               [c \in {upper(d) : d \in DataColumns(frame)} |->
                 frame.cells[id][CHOOSE d \in DataColumns(frame) : upper(d) = c]]]]

(* pd.merge(left, right, on=['index'], how='outer'): one row per key of   *)
(* either frame, a column of the frame that lacks the key filled with     *)
(* NaN; a label the two frames share gets the suffixes _x and _y; the key *)
(* stays the index only when it is the index of both frames.              *)
NonKey(frame) == SelectSeq(frame.columns, LAMBDA c : c # IndexLabel)

join(left, right, keys) ==
  LET overlap == DataColumns(left) \cap DataColumns(right)
      lname(c) == IF c \in overlap THEN Append(c, "_x") ELSE c
      rname(c) == IF c \in overlap THEN Append(c, "_y") ELSE c
      lcols == [i \in DOMAIN NonKey(left) |-> lname(NonKey(left)[i])]
      rcols == [i \in DOMAIN NonKey(right) |-> rname(NonKey(right)[i])]
      level == left.index_level /\ right.index_level
      cell(id, c) ==
        IF \E d \in DataColumns(left) : lname(d) = c
        THEN (IF id \in left.rows
              THEN left.cells[id][CHOOSE d \in DataColumns(left) : lname(d) = c]
              ELSE NaN)
        ELSE (IF id \in right.rows
              THEN right.cells[id][CHOOSE d \in DataColumns(right) : rname(d) = c]
              ELSE NaN)
  IN  [index_level |-> level,
       columns |-> (IF level THEN <<>> ELSE <<IndexLabel>>) \o lcols \o rcols,
       rows |-> keys,
       cells |-> [id \in keys |->
                   [c \in {lcols[i] : i \in DOMAIN lcols} \cup {rcols[i] : i \in DOMAIN rcols}
                      |-> cell(id, c)]]]

(* how='inner': the keys of both frames only. *)
merge_inner(left, right) == join(left, right, left.rows \cap right.rows)

(* how='outer' *)
merge(left, right) == join(left, right, left.rows \cup right.rows)

(* functools.reduce(merge, list), list not empty. *)
RECURSIVE reduce(_)
reduce(list) ==
  IF Len(list) = 1 THEN list[1]
  ELSE merge(reduce(SubSeq(list, 1, Len(list) - 1)), list[Len(list)])

(* ---------------------------------------------------------------------- *)
(* State.                                                                 *)
(*   df          the frame extract_data returned                          *)
(*   problems    the module-level registry, field -> text                 *)
(*   pc          where the run is: "idle", "loop" (the for statement of   *)
(*               validate_fields_from_json), "none", "unique", "type"     *)
(*               (the three groups of validate_field_dic), "validated",   *)
(*               "done", "error"                                          *)
(*   field       the field being dispatched                               *)
(*   validations the keys of the field's rule set read so far; the rule   *)
(*               set is an input, each key drawn when the code reads it   *)
(*   field_df    list_df of validate_field_dic                            *)
(*   list_df     list_df of validate_fields_from_json                     *)
(*   fields      the fields the for statement has taken, in order         *)
(*   out         what validate_fields_from_json returned or raised        *)
(*   life        the text calculate_percentage_error returned             *)
(*   call        the last call of a single function made outside a run    *)
Raised(e, a) == [exc |-> e, arg |-> a, ret |-> NoFrame]
Returned(frame) == [exc |-> "", arg |-> "", ret |-> frame]
NoOut == [exc |-> "none", arg |-> "", ret |-> NoFrame]
NoCall == [fn |-> "", field |-> "", exc |-> "", arg |-> "", ret |-> NoFrame,
           len_ori |-> 0, len_merge |-> 0, text |-> ""]

RECURSIVE Rows(_)
Rows(n) == IF n = 0 THEN {<<>>} ELSE {Append(r, v) : r \in Rows(n - 1), v \in Values}

Tables(max) == UNION {Rows(n) : n \in 0..max}

Range(s) == {s[i] : i \in DOMAIN s}

Init ==
  /\ df = extract_data(<<>>)
  /\ problems = <<>>
  /\ pc = "idle"
  /\ field = ""
  /\ validations = <<>>
  /\ field_df = <<>>
  /\ list_df = <<>>
  /\ fields = <<>>
  /\ out = NoOut
  /\ life = ""
  /\ call = NoCall

(* ---------------------------------------------------------------------- *)
(* A run: main() from extract_data to the percentage line.                *)

(* main, lines 414-425: the file is read and validate_fields_from_json    *)
(* starts with an empty list. `problems` is not touched.                  *)
Extract(rows) ==
  /\ pc = "idle"
  /\ df' = extract_data(rows)
  /\ pc' = "loop"
  /\ UNCHANGED <<problems, field, validations, field_df, list_df, fields, out, life, call>>

(* for field, validations in data_config["data_valid"].items(): the next  *)
(* key of the mapping; validate_field_dic starts with list_df = [].       *)
NextField(f) ==
  /\ pc = "loop"
  /\ f \notin Range(fields)
  /\ field' = f
  /\ fields' = Append(fields, f)
  /\ validations' = <<>>
  /\ field_df' = <<>>
  /\ pc' = "none"
  /\ UNCHANGED <<df, problems, list_df, out, life, call>>

(* No except clause: the KeyError leaves as it is. *)
reraise_unchanged(o, f) == Raised(o.exc, o.arg)

(* except KeyError: raise ColumnNotFoundError(... {field}); any other     *)
(* exception leaves validate_field_dic as it is.                          *)
reraise(o, f) ==
  IF o.exc = "KeyError" THEN Raised("ColumnNotFoundError", f) ELSE Raised(o.exc, o.arg)

(* One check of validate_field_dic: its frame is appended to the list, or *)
(* its exception ends validate_field_dic and, uncaught in                 *)
(* validate_fields_from_json, the run.                                    *)
Append_or_raise(o, next) ==
  /\ problems' = o.problems
  /\ IF o.exc = ""
     THEN /\ field_df' = Append(field_df, o.ret)
          /\ pc' = next
          /\ out' = out
     ELSE /\ field_df' = <<>>
          /\ pc' = "error"
          /\ out' = reraise(o, field)

(* if none in validations and validations[none]: *)
DispatchNone ==
  /\ pc = "none"
  /\ validations' = (none :> "true") @@ validations
  /\ Append_or_raise(validate_none_fields(df, field, problems), "unique")
  /\ UNCHANGED <<df, field, list_df, fields, life, call>>

SkipNone ==
  /\ pc = "none"
  /\ \/ validations' = validations
     \/ validations' = (none :> "false") @@ validations
  /\ pc' = "unique"
  /\ UNCHANGED <<df, problems, field, field_df, list_df, fields, out, life, call>>

(* if unique in validations and validations[unique]: *)
DispatchUnique ==
  /\ pc = "unique"
  /\ validations' = (unique :> "true") @@ validations
  /\ Append_or_raise(validate_unique_fields(df, field, problems), "type")
  /\ UNCHANGED <<df, field, list_df, fields, life, call>>

SkipUnique ==
  /\ pc = "unique"
  /\ \/ validations' = validations
     \/ validations' = (unique :> "false") @@ validations
  /\ pc' = "type"
  /\ UNCHANGED <<df, problems, field, field_df, list_df, fields, out, life, call>>

(* The last check of the field: validate_field_dic returns its list and   *)
(* validate_fields_from_json extends its own with it.                     *)
Extend_or_raise(o) ==
  /\ problems' = o.problems
  /\ field_df' = <<>>
  /\ IF o.exc = ""
     THEN /\ list_df' = list_df \o Append(field_df, o.ret)
          /\ pc' = "loop"
          /\ out' = out
     ELSE /\ list_df' = list_df
          /\ pc' = "error"
          /\ out' = reraise(o, field)

(* if type in validations: the four comparisons of validations[type]. *)
DispatchInt ==
  /\ pc = "type"
  /\ validations' = (type :> int_type) @@ validations
  /\ Extend_or_raise(validate_int_fields(df, field, problems))
  /\ UNCHANGED <<df, field, fields, life, call>>

DispatchString ==
  /\ pc = "type"
  /\ validations' = (type :> string_type) @@ validations
  /\ Extend_or_raise(validate_string_fields(df, field, problems))
  /\ UNCHANGED <<df, field, fields, life, call>>

DispatchDate ==
  /\ pc = "type"
  /\ validations' = (type :> date_type) @@ validations
  /\ Extend_or_raise(validate_date_format(df, field, problems))
  /\ UNCHANGED <<df, field, fields, life, call>>

DispatchCountry ==
  /\ pc = "type"
  /\ validations' = (type :> country_code_type) @@ validations
  /\ Extend_or_raise(validate_country_codes(df, field, problems))
  /\ UNCHANGED <<df, field, fields, life, call>>

(* A type value that none of the four comparisons matches, or no type     *)
(* key: no check runs and the list is returned as it is.                  *)
UnknownTypes == {"integer"}

SkipType ==
  /\ pc = "type"
  /\ \/ validations' = validations
     \/ \E t \in UnknownTypes : validations' = (type :> t) @@ validations
  /\ list_df' = list_df \o field_df
  /\ field_df' = <<>>
  /\ pc' = "loop"
  /\ UNCHANGED <<df, problems, field, fields, out, life, call>>

(* The two outcomes of pd.DataFrame().columns.str.upper(): the columns of *)
(* an empty frame are an object Index, which has .str, before pandas 2.0  *)
(* and a RangeIndex, whose .str raises AttributeError, from 2.0 on.       *)
EmptyColumnsUpper == {Returned(NoFrame), Raised("AttributeError", "")}

(* The for statement is over: lines 365-371. *)
Merge ==
  /\ pc = "loop"
  /\ IF list_df # <<>>
     THEN out' = Returned(columns_upper(reduce(list_df)))
     ELSE out' \in EmptyColumnsUpper
  /\ pc' = IF out'.exc = "" THEN "validated" ELSE "error"
  /\ UNCHANGED <<df, problems, field, validations, field_df, list_df, fields, life, call>>

(* main, line 427. *)
Percentage ==
  /\ pc = "validated"
  /\ life' = calculate_percentage_error(len(df), Cardinality(out.ret.rows))
  /\ pc' = "done"
  /\ UNCHANGED <<df, problems, field, validations, field_df, list_df, fields, out, call>>

(* main returns or the exception leaves it; the module, and with it       *)
(* `problems`, stays loaded for the next run.                             *)
Exit ==
  /\ pc \in {"done", "error"}
  /\ pc' = "idle"
  /\ df' = extract_data(<<>>)
  /\ field' = ""
  /\ validations' = <<>>
  /\ field_df' = <<>>
  /\ list_df' = <<>>
  /\ fields' = <<>>
  /\ out' = NoOut
  /\ life' = ""
  /\ UNCHANGED <<problems, call>>

Next ==
  \/ \E rows \in Tables(MaxRunRows) : Extract(rows)
  \/ \E f \in FieldNames : NextField(f)
  \/ DispatchNone
  \/ SkipNone
  \/ DispatchUnique
  \/ SkipUnique
  \/ DispatchInt
  \/ DispatchString
  \/ DispatchDate
  \/ DispatchCountry
  \/ SkipType
  \/ Merge
  \/ Percentage
  \/ Exit

Spec == Init /\ [][Next]_vars

(* ---------------------------------------------------------------------- *)
(* The functions called one at a time on a loaded frame, outside a run.   *)
(* One frame is loaded at a time.                                         *)
Load(rows) ==
  /\ pc = "idle"
  /\ len(df) = 0
  /\ call = NoCall
  /\ df' = extract_data(rows)
  /\ UNCHANGED <<problems, pc, field, validations, field_df, list_df, fields, out, life, call>>

(* The frame is let go; `problems` stays. *)
Drop ==
  /\ pc = "idle"
  /\ df' = extract_data(<<>>)
  /\ call' = NoCall
  /\ UNCHANGED <<problems, pc, field, validations, field_df, list_df, fields, out, life>>

Invoke(fn, f, o) ==
  /\ pc = "idle"
  /\ call' = [NoCall EXCEPT !.fn = fn, !.field = f, !.exc = o.exc, !.arg = o.arg,
                            !.ret = o.ret]
  /\ problems' = o.problems
  /\ UNCHANGED <<df, pc, field, validations, field_df, list_df, fields, out, life>>

CallNone(f) == Invoke("validate_none_fields", f, validate_none_fields(df, f, problems))
CallUnique(f) == Invoke("validate_unique_fields", f, validate_unique_fields(df, f, problems))
CallInt(f) == Invoke("validate_int_fields", f, validate_int_fields(df, f, problems))
CallString(f) == Invoke("validate_string_fields", f, validate_string_fields(df, f, problems))
CallDate(f) == Invoke("validate_date_format", f, validate_date_format(df, f, problems))
CallCountry(f) == Invoke("validate_country_codes", f, validate_country_codes(df, f, problems))

(* calculate_percentage_error on frames of n and m rows. *)
CallPercentage(n, m) ==
  /\ pc = "idle"
  /\ len(df) = 0
  /\ call' = [NoCall EXCEPT !.fn = "calculate_percentage_error", !.len_ori = n,
                            !.len_merge = m,
                            !.text = calculate_percentage_error(n, m)]
  /\ UNCHANGED <<df, problems, pc, field, validations, field_df, list_df, fields, out, life>>

NextChecks ==
  \/ \E rows \in Tables(MaxRows) : Load(rows)
  \/ Drop
  \/ \E f \in FieldNames : CallNone(f)
  \/ \E f \in FieldNames : CallUnique(f)
  \/ \E f \in FieldNames : CallInt(f)
  \/ \E f \in FieldNames : CallString(f)
  \/ \E f \in FieldNames : CallDate(f)
  \/ \E f \in FieldNames : CallCountry(f)
  \/ \E n \in 0..MaxCount, m \in 0..MaxCount : CallPercentage(n, m)

SpecChecks == Init /\ [][NextChecks]_vars

(* ====================================================================== *)
(* Properties.                                                            *)

RecognizedTypes == {int_type, string_type, date_type, country_code_type}

(* The rule set read so far asks for at least one check. *)
Configured(v) ==
  \/ none \in DOMAIN v /\ v[none] = "true"
  \/ unique \in DOMAIN v /\ v[unique] = "true"
  \/ type \in DOMAIN v /\ v[type] \in RecognizedTypes

(* A column of the frame is named after field f. *)
Mentions(frame, f) ==
  \E c \in DataColumns(frame) : \E i \in DOMAIN c : c[i] = f

RECURSIVE SumRows(_)
SumRows(list) ==
  IF list = <<>> THEN 0 ELSE Cardinality(Head(list).rows) + SumRows(Tail(list))

NullPositions(frame, f) == {i \in Positions(frame) : frame.data[f][i] = Null}

(* C1: a field that is not a column of the table and whose rule set       *)
(* configures a check ends its dispatch, and the whole validate call, in  *)
(* ColumnNotFoundError naming the field; no finding table of that field   *)
(* is kept and no report is returned.                                     *)
C1_MissingColumnRaises ==
  (field # "" /\ ~HasColumn(df, field) /\ Configured(validations)) =>
    /\ pc = "error"
    /\ out = Raised("ColumnNotFoundError", field)
    /\ field_df = <<>>
    /\ \A i \in DOMAIN list_df : ~Mentions(list_df[i], field)

C1_Witness ==
  /\ pc = "error"
  /\ field = "b"
  /\ fields = <<"a", "b">>
  /\ list_df # <<>>
  /\ DOMAIN validations = {type}
  /\ validations[type] = date_type
  /\ out.exc = "ColumnNotFoundError"

(* C2: when exactly two rows share a value of the field and every other   *)
(* row's value occurs once, the uniqueness check returns one finding row, *)
(* keyed by the lower of the two identities, whose repeated list is the   *)
(* other identity, and records round(2 / rows * 100, 4).                  *)
OnePair(frame, f, i, j) ==
  LET col == frame.data[f]
  IN  /\ i < j
      /\ col[i] = col[j]
      /\ \A k \in Positions(frame) \ {i, j} :
           \A l \in Positions(frame) \ {k} : col[l] # col[k]

C2_OneDuplicatePair ==
  (call.fn = "validate_unique_fields" /\ HasColumn(df, call.field)) =>
    \A i, j \in Positions(df) :
      OnePair(df, call.field, i, j) =>
        /\ call.exc = ""
        /\ call.ret.rows = {df.index[i]}
        /\ call.ret.cells[df.index[i]][<<"repeated_indexes">>] = ListCell(<<df.index[j]>>)
        /\ call.ret.cells[df.index[i]][<<"Repeat_", call.field>>]
             = ValueCell(df.data[call.field][i])
        /\ call.field \in DOMAIN problems
        /\ problems[call.field] = ErrorRate(RoundPercent(2, len(df)))

(* The same for a pair of rows that share a value other than null. *)
UniquePairOfValues ==
  (call.fn = "validate_unique_fields" /\ HasColumn(df, call.field)) =>
    \A i, j \in Positions(df) :
      (OnePair(df, call.field, i, j) /\ df.data[call.field][i] # Null) =>
        /\ call.exc = ""
        /\ call.ret.rows = {df.index[i]}
        /\ call.ret.cells[df.index[i]][<<"repeated_indexes">>] = ListCell(<<df.index[j]>>)
        /\ call.field \in DOMAIN problems
        /\ problems[call.field] = ErrorRate(RoundPercent(2, len(df)))

(* C3: the country-code check returns a finding table whose rows are the  *)
(* rows holding a value that is neither null nor a recognized code.       *)
C3_CountryCodeFindings ==
  (call.fn = "validate_country_codes" /\ HasColumn(df, call.field)) =>
    /\ call.exc = ""
    /\ call.ret.rows =
         {df.index[i] : i \in {k \in Positions(df) :
             /\ df.data[call.field][k] # Null
             /\ ~(df.data[call.field][k].kind = "str"
                  /\ df.data[call.field][k].repr \in country_list)}}

(* C4: on a table with no null in the field, the presence check returns   *)
(* an empty table with the column NONE_<field>_VALUE and sets the entry   *)
(* of the field to "Error_rate: 0.0%".                                    *)
C4_PresenceNoNulls ==
  (/\ call.fn = "validate_none_fields"
   /\ HasColumn(df, call.field)
   /\ NullPositions(df, call.field) = {}) =>
    /\ call.exc = ""
    /\ call.ret.rows = {}
    /\ <<"NONE_", call.field, "_VALUE">> \in DataColumns(call.ret)
    /\ call.field \in DOMAIN problems
    /\ problems[call.field] = "Error_rate: 0.0%"

(* C5: the report built from a non-empty list of finding tables has one   *)
(* row for each row identity of some finding table and no other; a cell   *)
(* of a check that did not flag the row is NaN, a cell of a check that    *)
(* did is that check's cell; tables with disjoint identities give as many *)
(* rows as they have together.                                            *)
PairwiseDisjoint(list) ==
  \A i, j \in DOMAIN list : i # j => list[i].rows \cap list[j].rows = {}

DispatchExceptions == {"ColumnNotFoundError", "IndexError"}

C6_NoFindingTables ==
  (/\ pc \in {"validated", "done", "error"}
   /\ list_df = <<>>
   /\ out.exc \notin DispatchExceptions) =>
    /\ out.exc = ""
    /\ out.ret.rows = {}
    /\ out.ret.columns = <<>>

(* C7: a rule set whose type is none of int, string, date, country_code   *)
(* makes the run fail: once such a type has been read, the dispatch of    *)
(* the field does not return and the run does not complete with a report. *)
C7_UnknownTypeIsFatal ==
  (type \in DOMAIN validations /\ validations[type] \notin RecognizedTypes) =>
    pc = "error"

(* C8: calculate_percentage_error returns "0%" when the two counts are    *)
(* equal or the original count is 0, and otherwise the text of            *)
(* (n - m) / n * 100 rounded to 4 places, followed by "%"; for            *)
(* 0 <= m <= n the number lies in 0..100, and is 100 when m = 0.          *)
C8_PercentageRule ==
  call.fn = "calculate_percentage_error" =>
    LET n == call.len_ori
        m == call.len_merge
        q == ((n - m) * 100 * Scale) \div n
    IN  IF n = m \/ n = 0 THEN call.text = "0%"
        ELSE \E r \in {q, q + 1} :
               /\ 2 * Abs(r * n - (n - m) * 100 * Scale) <= n
               /\ call.text = PyStr(PyFloat(r)) \o "%"
               /\ m <= n => (0 <= r /\ r <= 100 * Scale)
               /\ m = 0 => call.text = "100.0%"
               /\ (n = 3 /\ m = 1) => call.text = "66.6667%"
               /\ (n = 2 /\ m = 1) => call.text = "50.0%"
               /\ (n = 1 /\ m = 3) => call.text = "-200.0%"

C8_Witness ==
  /\ call.fn = "calculate_percentage_error"
  /\ call.len_ori = 3
  /\ call.len_merge = 1
  /\ call.text = "66.6667%"

(* C9: the integer, string and country-code checks leave the registry as  *)
(* it was unless they return a flagged row, and then write the entry of   *)
(* their field only; the date check always leaves it as it was; the       *)
(* country-code check on a column of recognized codes returns no finding  *)
(* and adds no entry.                                                     *)
ConditionalWriters ==
  {"validate_int_fields", "validate_string_fields", "validate_country_codes"}

AllRecognized(frame, f) ==
  \A i \in Positions(frame) :
    frame.data[f][i].kind = "str" /\ frame.data[f][i].repr \in country_list

C9_TypeChecksWriteOnlyWhenFlagged ==
  [][ /\ call'.fn \in ConditionalWriters =>
           /\ call'.ret.rows = {} => problems' = problems
           /\ \A f \in DOMAIN problems : f # call'.field =>
                f \in DOMAIN problems' /\ problems'[f] = problems[f]
           /\ DOMAIN problems' \subseteq DOMAIN problems \cup {call'.field}
      /\ call'.fn = "validate_date_format" => problems' = problems
      /\ (/\ call'.fn = "validate_country_codes"
          /\ HasColumn(df, call'.field)
          /\ AllRecognized(df, call'.field)) =>
           /\ call'.exc = ""
           /\ call'.ret.rows = {}
           /\ problems' = problems
    ]_vars

C9_Witness ==
  /\ call.fn = "validate_country_codes"
  /\ call.field = "a"
  /\ call.exc = ""
  /\ call.ret.rows = {}
  /\ len(df) = 2
  /\ AllRecognized(df, "a")
  /\ "a" \notin DOMAIN problems

(* C10: the registry holds one text per field; a check that records       *)
(* replaces the entry of its field with its own rate, the checks of a     *)
(* field running in the order presence, uniqueness, type; no entry is     *)
(* ever removed, neither by a later run nor by a run that ends in         *)
(* ColumnNotFoundError.                                                   *)
RateText(k, n) ==
  IF k = 0 THEN "Error_rate: 0%"
  ELSE "Error_rate: " \o PyStr(PyFloat(RoundHalfEven(k * 100 * Scale, n))) \o "%"

Flagged(frame, f, stage, t) ==
  LET col == frame.data[f]
      P == Positions(frame)
  IN  CASE stage = "none" -> {i \in P : col[i] = Null}
        [] stage = "unique" -> {i \in P : \E j \in P \ {i} : col[j] = col[i]}
        [] stage = "type" /\ t = int_type ->
             {i \in P : col[i].kind \notin {"int", "float", "null"}}
        [] stage = "type" /\ t = string_type ->
             {i \in P : col[i].kind \notin {"str", "null"}}
        [] OTHER -> {}

Records(stage, t, k) ==
  stage \in {"none", "unique"} \/ (t \in {int_type, string_type} /\ k > 0)

C10_RegistryOverwrittenNeverCleared ==
  [][ LET t == IF type \in DOMAIN validations' THEN validations'[type] ELSE ""
          asked(key) == key \in DOMAIN validations' /\ validations'[key] = "true"
          ran == /\ HasColumn(df, field)
                 /\ \/ pc = "none" /\ asked(none)
                    \/ pc = "unique" /\ asked(unique)
                    \/ pc = "type" /\ t \in RecognizedTypes
          k == IF ran THEN Cardinality(Flagged(df, field, pc, t)) ELSE 0
      IN  /\ DOMAIN problems \subseteq DOMAIN problems'
          /\ \A f \in DOMAIN problems : f # field => problems'[f] = problems[f]
          /\ problems' # problems => ran /\ Records(pc, t, k)
          /\ (ran /\ Records(pc, t, k) /\ pc' # "error") =>
               /\ field \in DOMAIN problems'
               /\ problems'[field] = RateText(k, len(df))
          /\ pc = "none" => pc' \in {"unique", "error"}
          /\ pc = "unique" => pc' \in {"type", "error"}
          /\ pc = "type" => pc' \in {"loop", "error"}
    ]_vars

C10_Witness ==
  /\ pc = "error"
  /\ out.exc = "ColumnNotFoundError"
  /\ fields = <<"a", "b">>
  /\ len(df) = 2
  /\ NullPositions(df, "a") = {}
  /\ Len(list_df) = 3
  /\ list_df[3].columns = <<IndexLabel, <<"NULL_", "a", "_INT">>>>
  /\ "a" \in DOMAIN problems
  /\ problems["a"] = "Error_rate: 50.0%"

====
